---- MODULE Spec2Model ----
(***************************************************************************)
(* Hamyon API (src/main.py): a FastAPI service over two PostgreSQL tables, *)
(* users(telegram_id UNIQUE, language) and transactions(id, telegram_id,   *)
(* type, amount, category_key, description, merchant, tx_date, source,     *)
(* created_at).  Every route is one action; an action is the whole         *)
(* handler: FastAPI's validation of the declared parameters, the call of   *)
(* auth, the SQL statement, the commit and the response.                   *)
(*                                                                         *)
(* Optional values (Python None, SQL NULL, an absent header) are the empty *)
(* tuple; a present value v is <<v>>.  A JSON object is a function whose   *)
(* DOMAIN is the set of keys it carries.  Dates are day numbers, a         *)
(* timestamp is [ts, day]: ts orders rows, day is its calendar date.       *)
(***************************************************************************)
EXTENDS Integers, Sequences, FiniteSets, TLC

VARIABLES
    API_KEY,        \* the configured shared secret, read once at startup
    users,          \* table users: sequence of [telegram_id, language]
    transactions,   \* table transactions: sequence of rows, in insertion order
    now,            \* the clock's timestamp counter
    today,          \* the clock's calendar day (date.today(), now()::date)
    req,            \* the request handled by the last step
    resp,           \* the response to it
    lastLang,       \* history: telegram_id -> language of the last successful set
    pc,             \* concurrent set_user_lang requests: position of each
    call,           \* ... the payload of each
    plan,           \* ... the write its upsert statement decided on
    lastCommit      \* history: telegram_id -> language of the last commit

vars == <<API_KEY, users, transactions, now, today, req, resp, lastLang,
          pc, call, plan, lastCommit>>

tables == <<users, transactions>>
clock == <<now, today>>
workers == <<pc, call, plan, lastCommit>>

----------------------------------------------------------------------------
(* Bounds of the model *)

MaxTx == 2
MaxNow == 2
MaxDay == 1
NumWorkers == 3

----------------------------------------------------------------------------
(* Optional values and Python truthiness *)

None == <<>>
Some(v) == <<v>>

\* bool(v) for an optional string: None and "" are falsy
TruthyStr(o) == o # None /\ o[1] # ""
\* bool(v) for an optional integer: None and 0 are falsy
TruthyInt(o) == o # None /\ o[1] # 0
\* a or b
OrStr(a, b) == IF TruthyStr(a) THEN a ELSE b
OrInt(a, b) == IF TruthyInt(a) THEN a ELSE b

\* dict.get(k) and dict.get(k, default)
Get(d, k) == IF k \in DOMAIN d THEN Some(d[k]) ELSE None
GetDefault(d, k, default) == IF k \in DOMAIN d THEN Some(d[k]) ELSE Some(default)

Range(s) == {s[i] : i \in DOMAIN s}

----------------------------------------------------------------------------
(* Enumerations of the input schemas *)

Languages == {"uz", "ru", "en"}
TxTypes == {"expense", "income", "debt"}
TelegramIds == {0, 1, 2}

----------------------------------------------------------------------------
(* auth *)

\* auth that compares only a header that is present
authSkipsMissing(api_key) ==
    ~(API_KEY # "" /\ api_key # None /\ api_key # Some(API_KEY))

\* TRUE when auth returns, FALSE when it raises HTTPException(401)
auth(api_key) ==
    ~(API_KEY # "" /\ api_key # Some(API_KEY))

Unauthorized == [status |-> 401, body |-> [detail |-> "Unauthorized"]]
ValidationError == [status |-> 422, body |-> [detail |-> "validation error"]]
BadRequest == [status |-> 400, body |-> [detail |-> "Missing fields"]]
Ok(body) == [status |-> 200, body |-> body]

Request(route, k, s, arg) ==
    [route |-> route, x_api_key |-> k, x_api_secret |-> s, arg |-> arg]

----------------------------------------------------------------------------
(* Table users and the upsert statement *)

RowsOf(rows, tid) == {i \in DOMAIN rows : rows[i].telegram_id = tid}

\* ON CONFLICT (telegram_id) DO NOTHING
PlanDoNothing(rows, tid, lang) ==
    IF RowsOf(rows, tid) = {}
    THEN [op |-> "insert", telegram_id |-> tid, language |-> lang]
    ELSE [op |-> "nothing", telegram_id |-> tid, language |-> lang]

\* INSERT ... ON CONFLICT (telegram_id) DO UPDATE SET language =
\* EXCLUDED.language: the write the statement decides on
PlanUpsert(rows, tid, lang) ==
    IF RowsOf(rows, tid) = {}
    THEN [op |-> "insert", telegram_id |-> tid, language |-> lang]
    ELSE [op |-> "update", telegram_id |-> tid, language |-> lang]

\* the table once the transaction holding the write commits
ApplyWrite(rows, w) ==
    CASE w.op = "insert" ->
           Append(rows, [telegram_id |-> w.telegram_id, language |-> w.language])
      [] w.op = "update" ->
           [i \in DOMAIN rows |->
              IF rows[i].telegram_id = w.telegram_id
              THEN [rows[i] EXCEPT !.language = w.language]
              ELSE rows[i]]
      [] OTHER -> rows

\* SELECT language FROM users WHERE telegram_id = %s; fetchone()
SelectLanguage(rows, tid) ==
    IF RowsOf(rows, tid) = {}
    THEN None
    ELSE Some(rows[CHOOSE i \in RowsOf(rows, tid) :
                     \A j \in RowsOf(rows, tid) : i <= j].language)

\* LanguageIn: telegram_id: int, language: Literal["uz", "ru", "en"]
ValidLanguageIn(p) ==
    /\ "telegram_id" \in DOMAIN p
    /\ "language" \in DOMAIN p
    /\ p.language \in Languages

----------------------------------------------------------------------------
(* POST /users/lang and GET /users/lang *)

set_user_lang(k, s, p) ==
    /\ req' = Request("POST /users/lang", k, s, p)
    /\ IF ~ValidLanguageIn(p)
       THEN /\ resp' = ValidationError
            /\ UNCHANGED <<users, lastLang>>
       ELSE IF ~auth(OrStr(k, s))
       THEN /\ resp' = Unauthorized
            /\ UNCHANGED <<users, lastLang>>
       ELSE /\ users' = ApplyWrite(users, PlanUpsert(users, p.telegram_id, p.language))
            /\ lastLang' = [lastLang EXCEPT ![p.telegram_id] = Some(p.language)]
            /\ resp' = Ok([ok |-> TRUE, language |-> p.language])
    /\ UNCHANGED <<API_KEY, transactions, clock, workers>>

\* query parameter telegram_id: int is required
get_user_lang(k, s, q) ==
    /\ req' = Request("GET /users/lang", k, s, q)
    /\ resp' = IF "telegram_id" \notin DOMAIN q THEN ValidationError
               ELSE IF ~auth(OrStr(k, s)) THEN Unauthorized
               ELSE LET row == SelectLanguage(users, q.telegram_id)
                    IN  Ok([language |-> IF row # None THEN row[1] ELSE "uz"])
    /\ UNCHANGED <<API_KEY, tables, clock, lastLang, workers>>

----------------------------------------------------------------------------
(* Table transactions *)

\* TransactionIn: the schema FastAPI validates the body of POST /transactions against
ValidTransactionIn(p) ==
    /\ "telegram_id" \in DOMAIN p
    /\ "type" \in DOMAIN p => p.type \in TxTypes
    /\ "amount" \in DOMAIN p
    /\ p.amount >= 0
    /\ "category_key" \in DOMAIN p

\* the validated model, defaults filled in
TransactionIn(p) ==
    [telegram_id |-> p.telegram_id,
     type |-> GetDefault(p, "type", "expense")[1],
     amount |-> p.amount,
     category_key |-> p.category_key,
     description |-> Get(p, "description"),
     merchant |-> Get(p, "merchant"),
     tx_date |-> Get(p, "tx_date"),
     source |-> GetDefault(p, "source", "text")[1]]

\* the id the table generates for the next row
NextId(table) == Len(table) + 1

Timestamp == [ts |-> now, day |-> today]

\* an insert that replaces the stored rows
InsertReplacing(table, v) ==
    <<[id |-> 1,
       telegram_id |-> v.telegram_id, type |-> v.type, amount |-> v.amount,
       category_key |-> v.category_key, description |-> v.description,
       merchant |-> v.merchant, tx_date |-> v.tx_date, source |-> v.source,
       created_at |-> Timestamp]>>

\* INSERT INTO transactions (...) VALUES (...) RETURNING id: id and created_at
\* are the column defaults
InsertTransaction(table, v) ==
    Append(table,
           [id |-> NextId(table),
            telegram_id |-> v.telegram_id, type |-> v.type, amount |-> v.amount,
            category_key |-> v.category_key, description |-> v.description,
            merchant |-> v.merchant, tx_date |-> v.tx_date, source |-> v.source,
            created_at |-> Timestamp])

\* str(row[0])
IdString(table) == ToString(table[Len(table)].id)

----------------------------------------------------------------------------
(* POST /transactions *)

create_transaction(k, s, p) ==
    /\ req' = Request("POST /transactions", k, s, p)
    /\ IF ~ValidTransactionIn(p)
       THEN /\ resp' = ValidationError
            /\ UNCHANGED transactions
       ELSE IF ~auth(OrStr(k, s))
       THEN /\ resp' = Unauthorized
            /\ UNCHANGED transactions
       ELSE /\ transactions' = InsertTransaction(transactions, TransactionIn(p))
            /\ resp' = Ok([ok |-> TRUE, id |-> IdString(transactions')])
    /\ UNCHANGED <<API_KEY, users, clock, lastLang, workers>>

----------------------------------------------------------------------------
(* POST /sync/tx: the legacy endpoint; payload is any JSON object, and only *)
(* X-API-KEY is read                                                       *)

LegacyUserId(p) == OrInt(Get(p, "user_id"), Get(p, "telegram_id"))
LegacyType(p) == GetDefault(p, "type", "expense")
LegacyAmount(p) == Get(p, "amount")
LegacyCategory(p) == OrStr(Get(p, "category"), GetDefault(p, "category_key", "other"))
LegacySource(p) == GetDefault(p, "source", "bot")

\* the test with the user identifier tested for presence, as the amount is
LegacyMissingIfAbsent(p) == LegacyUserId(p) = None \/ LegacyAmount(p) = None

\* if not user_id or amount is None
LegacyMissing(p) == ~TruthyInt(LegacyUserId(p)) \/ LegacyAmount(p) = None

LegacyValues(p) ==
    [telegram_id |-> LegacyUserId(p)[1],
     type |-> LegacyType(p)[1],
     amount |-> LegacyAmount(p)[1],
     category_key |-> LegacyCategory(p)[1],
     description |-> None,
     merchant |-> None,
     tx_date |-> None,
     source |-> LegacySource(p)[1]]

create_tx_legacy(k, s, p) ==
    /\ req' = Request("POST /sync/tx", k, s, p)
    /\ IF ~auth(k)
       THEN /\ resp' = Unauthorized
            /\ UNCHANGED transactions
       ELSE IF LegacyMissing(p)
       THEN /\ resp' = BadRequest
            /\ UNCHANGED transactions
       ELSE /\ transactions' = InsertTransaction(transactions, LegacyValues(p))
            /\ resp' = Ok([id |-> IdString(transactions')])
    /\ UNCHANGED <<API_KEY, users, clock, lastLang, workers>>

----------------------------------------------------------------------------
(* Statistics *)

\* COALESCE(tx_date, created_at::date)
EffectiveDate(r) ==
    IF r.tx_date # None THEN r.tx_date[1] ELSE r.created_at.day

\* SUM(CASE WHEN type = ty THEN amount END) over rows: NULL when no row matches
RECURSIVE SumCase(_, _)
SumCase(rows, ty) ==
    IF rows = <<>> THEN None
    ELSE LET rest == SumCase(Tail(rows), ty)
         IN  IF Head(rows).type # ty THEN rest
             ELSE IF rest = None THEN Some(Head(rows).amount)
             ELSE Some(Head(rows).amount + rest[1])

\* COALESCE(x, 0)
Coalesce(x, default) == IF x # None THEN x[1] ELSE default

Aggregate(rows) ==
    [expense |-> Coalesce(SumCase(rows, "expense"), 0),
     income |-> Coalesce(SumCase(rows, "income"), 0),
     debt |-> Coalesce(SumCase(rows, "debt"), 0),
     count |-> Len(rows)]

\* the WHERE clause without telegram_id = %s
TodayRowsAnyUser(table, tid, day) ==
    LET Match(r) == EffectiveDate(r) = day
    IN  SelectSeq(table, Match)

\* WHERE telegram_id = %s AND COALESCE(tx_date, created_at::date) = %s
TodayRows(table, tid, day) ==
    LET Match(r) == r.telegram_id = tid /\ EffectiveDate(r) = day
    IN  SelectSeq(table, Match)

\* WHERE telegram_id = %s AND COALESCE(tx_date, created_at::date) >= %s
RangeRows(table, tid, since) ==
    LET Match(r) == r.telegram_id = tid /\ EffectiveDate(r) >= since
    IN  SelectSeq(table, Match)

stats_today(k, s, q) ==
    /\ req' = Request("GET /stats/today", k, s, q)
    /\ resp' = IF "telegram_id" \notin DOMAIN q THEN ValidationError
               ELSE IF ~auth(OrStr(k, s)) THEN Unauthorized
               ELSE Ok(Aggregate(TodayRows(transactions, q.telegram_id, today)))
    /\ UNCHANGED <<API_KEY, tables, clock, lastLang, workers>>

\* since = date.today() - timedelta(days=days - 1), days: int = 7
Since(q) == today - (GetDefault(q, "days", 7)[1] - 1)

stats_range(k, s, q) ==
    /\ req' = Request("GET /stats/range", k, s, q)
    /\ resp' = IF "telegram_id" \notin DOMAIN q THEN ValidationError
               ELSE IF ~auth(OrStr(k, s)) THEN Unauthorized
               ELSE LET a == Aggregate(RangeRows(transactions, q.telegram_id, Since(q)))
                    IN  Ok([expense |-> a.expense, income |-> a.income, debt |-> a.debt,
                            count |-> a.count, since |-> ToString(Since(q))])
    /\ UNCHANGED <<API_KEY, tables, clock, lastLang, workers>>

----------------------------------------------------------------------------
(* GET /export/csv *)

\* LIMIT 2000, scaled down so that a table of a few rows exceeds it
ExportLimit == 2

Min(a, b) == IF a <= b THEN a ELSE b

\* the rows of idx no row of idx was created before / after
Oldest(table, idx) ==
    {i \in idx : \A j \in idx : table[i].created_at.ts <= table[j].created_at.ts}
Newest(table, idx) ==
    {i \in idx : \A j \in idx : table[i].created_at.ts >= table[j].created_at.ts}

\* the orders ORDER BY created_at ASC may deliver the rows idx in
RECURSIVE OrderByCreatedAsc(_, _)
OrderByCreatedAsc(table, idx) ==
    IF idx = {} THEN {<<>>}
    ELSE UNION {{<<i>> \o o : o \in OrderByCreatedAsc(table, idx \ {i})} :
                  i \in Oldest(table, idx)}

\* the orders ORDER BY created_at DESC may deliver the rows idx in: rows of
\* equal created_at come in any order
RECURSIVE OrderByCreatedDesc(_, _)
OrderByCreatedDesc(table, idx) ==
    IF idx = {} THEN {<<>>}
    ELSE UNION {{<<i>> \o o : o \in OrderByCreatedDesc(table, idx \ {i})} :
                  i \in Newest(table, idx)}

\* LIMIT n
Limit(o, n) == SubSeq(o, 1, Min(n, Len(o)))

\* the select list: created_at, type, amount, category_key, description,
\* merchant, COALESCE(tx_date, created_at::date) AS day, source
ExportTuple(r) ==
    [created_at |-> r.created_at, type |-> r.type, amount |-> r.amount,
     category_key |-> r.category_key, description |-> r.description,
     merchant |-> r.merchant, day |-> EffectiveDate(r), source |-> r.source]

\* csv.writer: None is written as the empty string, a number as str(number)
CsvText(o) == IF o = None THEN "" ELSE o[1]

CsvHeader ==
    <<"created_at", "type", "amount", "category", "description", "merchant",
      "date", "source">>

CsvRow(t) ==
    <<ToString(t.created_at.ts), t.type, ToString(t.amount), t.category_key,
      CsvText(t.description), CsvText(t.merchant), ToString(t.day), t.source>>

\* rows: what fetchall() returned; content: the lines written
ExportBody(rows) ==
    [rows |-> rows, content |-> <<CsvHeader>> \o [i \in DOMAIN rows |-> CsvRow(rows[i])]]

export_csv(k, s, q) ==
    /\ req' = Request("GET /export/csv", k, s, q)
    /\ IF "telegram_id" \notin DOMAIN q THEN resp' = ValidationError
       ELSE IF ~auth(OrStr(k, s)) THEN resp' = Unauthorized
       ELSE \E o \in OrderByCreatedDesc(transactions, RowsOf(transactions, q.telegram_id)) :
               LET fetched == Limit(o, ExportLimit)
               IN  resp' = Ok(ExportBody([i \in DOMAIN fetched |->
                                             ExportTuple(transactions[fetched[i]])]))
    /\ UNCHANGED <<API_KEY, tables, clock, lastLang, workers>>

----------------------------------------------------------------------------
(* GET /health *)

health ==
    /\ req' = Request("GET /health", None, None, <<>>)
    /\ resp' = Ok([ok |-> TRUE])
    /\ UNCHANGED <<API_KEY, tables, clock, lastLang, workers>>

----------------------------------------------------------------------------
(* The clock *)

NoRequest == Request("", None, None, <<>>)
NoResponse == [status |-> 0, body |-> <<>>]

\* time passes within the day
Tick ==
    /\ now' = now + 1
    /\ UNCHANGED today
    /\ req' = NoRequest
    /\ resp' = NoResponse
    /\ UNCHANGED <<API_KEY, tables, lastLang, workers>>

\* time passes over the server's day boundary
Midnight ==
    /\ now' = now + 1
    /\ today' = today + 1
    /\ req' = NoRequest
    /\ resp' = NoResponse
    /\ UNCHANGED <<API_KEY, tables, lastLang, workers>>

----------------------------------------------------------------------------
(* Concurrent POST /users/lang: each request is one upsert statement, then  *)
(* the commit.  The statement's write is invisible to the others until the *)
(* commit; a statement that conflicts on telegram_id with an uncommitted   *)
(* write waits for that transaction to end.                                *)

Workers == 1 .. NumWorkers

\* an insert that does not wait on the unique key
NeverBlocked(w, tid) == TRUE

\* no other transaction holds an uncommitted write on the unique key
KeyFree(w, tid) ==
    \A v \in Workers \ {w} : pc[v] = "executed" => call[v].telegram_id # tid

\* cur.execute(INSERT ... ON CONFLICT (telegram_id) DO UPDATE ...)
set_lang_execute(w, p) ==
    /\ pc[w] = "start"
    /\ ValidLanguageIn(p)
    /\ KeyFree(w, p.telegram_id)
    /\ call' = [call EXCEPT ![w] = p]
    /\ plan' = [plan EXCEPT ![w] = PlanUpsert(users, p.telegram_id, p.language)]
    /\ pc' = [pc EXCEPT ![w] = "executed"]
    /\ UNCHANGED <<API_KEY, tables, clock, req, resp, lastLang, lastCommit>>

\* conn.commit(): a second row for the key violates the unique constraint
set_lang_commit(w) ==
    /\ pc[w] = "executed"
    /\ IF plan[w].op = "insert" /\ RowsOf(users, call[w].telegram_id) # {}
       THEN /\ pc' = [pc EXCEPT ![w] = "failed"]
            /\ UNCHANGED <<users, lastCommit>>
       ELSE /\ users' = ApplyWrite(users, plan[w])
            /\ lastCommit' = [lastCommit EXCEPT ![call[w].telegram_id] = Some(call[w].language)]
            /\ pc' = [pc EXCEPT ![w] = "done"]
    /\ UNCHANGED <<API_KEY, transactions, clock, req, resp, lastLang, call, plan>>

----------------------------------------------------------------------------
(* Inputs *)

Secret == "hamyon-secret"

\* the API_KEY environment variable: unset (the default "") or set
ApiKeys == {"", Secret}

\* <<X-API-KEY, X-API-SECRET>>
HeaderPairs ==
    {<<None, None>>,
     <<Some(Secret), None>>,
     <<None, Some(Secret)>>,
     <<Some("wrong"), None>>,
     <<Some("wrong"), Some(Secret)>>,
     <<Some(Secret), Some("wrong")>>,
     <<Some(""), Some(Secret)>>}

KeyHeader == {<<Some(Secret), None>>}

NoParams == <<>>

Init ==
    /\ API_KEY \in ApiKeys
    /\ users = <<>>
    /\ transactions = <<>>
    /\ now = 0
    /\ today = 0
    /\ req = NoRequest
    /\ resp = NoResponse
    /\ lastLang = [t \in TelegramIds |-> None]
    /\ pc = [w \in Workers |-> "start"]
    /\ call = [w \in Workers |-> NoParams]
    /\ plan = [w \in Workers |-> NoParams]
    /\ lastCommit = [t \in TelegramIds |-> None]

InitSecret == Init /\ API_KEY = Secret

Bounded ==
    /\ Len(transactions) <= MaxTx
    /\ now <= MaxNow
    /\ today <= MaxDay

----------------------------------------------------------------------------
(* The whole API, one request at a time, under every header combination *)

ApiLang == {[telegram_id |-> 1, language |-> "ru"],
            [telegram_id |-> 1, language |-> "de"]}
ApiTx == {[telegram_id |-> 1, amount |-> 1000, category_key |-> "food"],
          [telegram_id |-> 1, amount |-> 1000]}
ApiLegacy == {[telegram_id |-> 1, amount |-> 500],
              [amount |-> 500]}
ApiQuery == {[telegram_id |-> 1], NoParams}

Next ==
    \/ \E h \in HeaderPairs, p \in ApiLang : set_user_lang(h[1], h[2], p)
    \/ \E h \in HeaderPairs, q \in ApiQuery : get_user_lang(h[1], h[2], q)
    \/ \E h \in HeaderPairs, p \in ApiTx : create_transaction(h[1], h[2], p) /\ Bounded'
    \/ \E h \in HeaderPairs, p \in ApiLegacy : create_tx_legacy(h[1], h[2], p) /\ Bounded'
    \/ \E h \in HeaderPairs, q \in ApiQuery : stats_today(h[1], h[2], q)
    \/ \E h \in HeaderPairs, q \in ApiQuery : stats_range(h[1], h[2], q)
    \/ \E h \in HeaderPairs, q \in ApiQuery : export_csv(h[1], h[2], q)
    \/ health
    \/ Midnight /\ Bounded'

Spec == Init /\ [][Next]_vars

----------------------------------------------------------------------------
(* The language preference of two users; some requests are refused *)

SomeHeaders == {<<Some(Secret), None>>, <<None, Some(Secret)>>, <<Some("wrong"), None>>}

LangPayloads ==
    {[telegram_id |-> t, language |-> l] : t \in {1, 2}, l \in Languages \cup {"de"}}
    \cup {[telegram_id |-> 1]}

LangQueries == {[telegram_id |-> t] : t \in TelegramIds}

NextLang ==
    \/ \E h \in SomeHeaders, p \in LangPayloads : set_user_lang(h[1], h[2], p)
    \/ \E h \in SomeHeaders, q \in LangQueries : get_user_lang(h[1], h[2], q)

SpecLang == Init /\ [][NextLang]_vars

----------------------------------------------------------------------------
(* Creating transactions on both endpoints, over the shapes of payload *)

Empty == [x \in {} |-> 0]

\* an object with key k for each value in vs, and without the key
Optional(k, vs) == {Empty} \cup {k :> v : v \in vs}

TxPayloads ==
    {[telegram_id |-> 1, category_key |-> "food"] @@ a @@ t :
        a \in Optional("amount", {0 - 1, 0, 1000}),
        t \in Optional("type", {"income", "debt", "loan"})}
    \cup {[telegram_id |-> 2, amount |-> 1000],
          [amount |-> 1000, category_key |-> "food"],
          [telegram_id |-> 2, amount |-> 1000, category_key |-> "food",
           description |-> "lunch", merchant |-> "cafe", tx_date |-> 0,
           source |-> "voice"]}

LegacyPayloads ==
    {[amount |-> 500] @@ u @@ t :
        u \in Optional("user_id", {0, 1}), t \in Optional("telegram_id", {0, 2})}
    \cup {[telegram_id |-> 2] @@ a : a \in Optional("amount", {0 - 1, 0, 500})}
    \cup {[telegram_id |-> 2, amount |-> 500] @@ t @@ c @@ ck @@ s :
            t \in Optional("type", {"loan"}),
            c \in Optional("category", {"", "food"}),
            ck \in Optional("category_key", {"", "taxi"}),
            s \in Optional("source", {"voice"})}

TxHeaders == {<<Some(Secret), None>>, <<Some("wrong"), None>>}

\* the payloads vary widely, so the table is kept one row shorter than MaxTx
BoundedTx == Len(transactions) < MaxTx

NextTx ==
    \/ \E h \in TxHeaders, p \in TxPayloads : create_transaction(h[1], h[2], p) /\ BoundedTx'
    \/ \E h \in TxHeaders, p \in LegacyPayloads : create_tx_legacy(h[1], h[2], p) /\ BoundedTx'

SpecTx == InitSecret /\ [][NextTx]_vars

----------------------------------------------------------------------------
(* Statistics over dated transactions, across the day boundary *)

StatsTx ==
    {[telegram_id |-> 1, amount |-> 1000, category_key |-> "food"] @@ d :
        d \in Optional("tx_date", {0 - 7, 0 - 6, 0, 1})}
    \cup {[telegram_id |-> 1, type |-> "income", amount |-> 300, category_key |-> "salary"],
          [telegram_id |-> 1, type |-> "debt", amount |-> 200, category_key |-> "friend"],
          [telegram_id |-> 2, amount |-> 50, category_key |-> "food"]}

StatsLegacy == {[telegram_id |-> 1, amount |-> 500, type |-> "loan"]}

StatsQueries == {[telegram_id |-> t] : t \in {1, 2}}

RangeQueries == {[telegram_id |-> t] @@ d : t \in {1, 2}, d \in Optional("days", {1, 2})}

NextStats ==
    \/ \E h \in KeyHeader, p \in StatsTx : create_transaction(h[1], h[2], p) /\ Bounded'
    \/ \E h \in KeyHeader, p \in StatsLegacy : create_tx_legacy(h[1], h[2], p) /\ Bounded'
    \/ \E h \in KeyHeader, q \in StatsQueries : stats_today(h[1], h[2], q)
    \/ \E h \in KeyHeader, q \in RangeQueries : stats_range(h[1], h[2], q)
    \/ Midnight /\ Bounded'

SpecStats == InitSecret /\ [][NextStats]_vars

----------------------------------------------------------------------------
(* Export of tables longer than the limit, rows of two users interleaved *)

ExportTx == {[telegram_id |-> t, amount |-> 1000, category_key |-> "food"] : t \in {1, 2}}

ExportQueries == {[telegram_id |-> t] : t \in {1, 2}}

BoundedExport ==
    /\ Len(transactions) <= ExportLimit + 2
    /\ now <= MaxNow

NextExport ==
    \/ \E h \in KeyHeader, p \in ExportTx : create_transaction(h[1], h[2], p) /\ BoundedExport'
    \/ \E h \in KeyHeader, q \in ExportQueries : export_csv(h[1], h[2], q)
    \/ Tick /\ BoundedExport'

SpecExport == InitSecret /\ [][NextExport]_vars

----------------------------------------------------------------------------
(* Concurrent language updates *)

ConcPayloads == {[telegram_id |-> t, language |-> l] : t \in {1, 2}, l \in Languages}

NextConc ==
    \/ \E w \in Workers, p \in ConcPayloads : set_lang_execute(w, p)
    \/ \E w \in Workers : set_lang_commit(w)

SpecConc == InitSecret /\ [][NextConc]_vars

----------------------------------------------------------------------------
(* Vocabulary of the claims *)

AuthRoutes ==
    {"POST /users/lang", "GET /users/lang", "POST /transactions", "POST /sync/tx",
     "GET /stats/today", "GET /stats/range", "GET /export/csv"}

ReadRoutes ==
    {"GET /users/lang", "GET /stats/today", "GET /stats/range", "GET /export/csv"}

\* the secret a request supplies: the first non-empty of its two headers
Supplied(r) == OrStr(r.x_api_key, r.x_api_secret)

\* the request passes the schema its route declares
SchemaValid(r) ==
    CASE r.route = "POST /users/lang" -> ValidLanguageIn(r.arg)
      [] r.route = "POST /transactions" -> ValidTransactionIn(r.arg)
      [] r.route = "POST /sync/tx" -> TRUE
      [] OTHER -> "telegram_id" \in DOMAIN r.arg

----------------------------------------------------------------------------
(* C1 *)

\* C1 as stated: on every authenticated route and under every configured
\* secret, the empty one included, a request whose supplied secret is missing
\* or differs from the configured one is answered 401 and changes no table.
C1_Original ==
    [][(req'.route \in AuthRoutes /\ Supplied(req') # Some(API_KEY))
         => (resp'.status = 401 /\ UNCHANGED tables)]_vars

\* C1 amended: when the configured secret is non-empty, a request on an
\* authenticated route whose supplied secret is missing or differs from it
\* changes no table and is answered 401, or 422 when it fails the route's
\* schema, which is validated before auth is called.
C1_Unauthorized ==
    [][(req'.route \in AuthRoutes /\ API_KEY # "" /\ Supplied(req') # Some(API_KEY))
         => /\ UNCHANGED tables
            /\ resp'.status = (IF SchemaValid(req') THEN 401 ELSE 422)]_vars

C1_Witness ==
    /\ API_KEY = Secret
    /\ req.route = "POST /transactions"
    /\ req.x_api_key = Some("wrong")
    /\ req.x_api_secret = Some(Secret)
    /\ SchemaValid(req)
    /\ resp.status = 401
    /\ transactions # <<>>

----------------------------------------------------------------------------
(* C5 *)

\* C5 as stated: on every authenticated route a request carrying the correct
\* secret only in X-API-SECRET (X-API-KEY absent or empty) is authorized.
C5_EitherHeader ==
    (/\ req.route \in AuthRoutes
     /\ ~TruthyStr(req.x_api_key)
     /\ API_KEY # ""
     /\ req.x_api_secret = Some(API_KEY))
    => resp.status # 401

----------------------------------------------------------------------------
(* C10 *)

\* C10: a stored transaction row is never changed or removed by any request,
\* and the four read routes change neither table.
C10_Immutable ==
    [][/\ \A r \in Range(transactions) :
             /\ r \in Range(transactions')
             /\ \A n \in Range(transactions') : n.id = r.id => n = r
       /\ req'.route \in ReadRoutes => UNCHANGED tables]_vars

C10_Witness ==
    /\ Len(transactions) = MaxTx
    /\ transactions[1].created_at.day < today
    /\ users # <<>>
    /\ req.route = "GET /export/csv"
    /\ resp.status = 200

----------------------------------------------------------------------------
(* C4 *)

\* C4: get_language(telegram_id) returns the language of the most recent
\* successful set_language for that telegram_id, and "uz" with status 200
\* when none has succeeded; sets for other telegram_ids do not change it.
C4_GetReturnsLastSet ==
    (/\ req.route = "GET /users/lang"
     /\ SchemaValid(req)
     /\ (API_KEY = "" \/ Supplied(req) = Some(API_KEY)))
    => /\ resp.status = 200
       /\ resp.body.language =
            (IF lastLang[req.arg.telegram_id] = None
             THEN "uz"
             ELSE lastLang[req.arg.telegram_id][1])

C4_Witness ==
    /\ req.route = "GET /users/lang"
    /\ req.arg.telegram_id = 1
    /\ resp.status = 200
    /\ resp.body.language = "en"
    /\ Len(users) = 2
    /\ users[1] = [telegram_id |-> 1, language |-> "en"]
    /\ lastLang[2] = Some("ru")

----------------------------------------------------------------------------
(* C2 *)

\* C2 as stated: after any sequence of requests to POST /transactions and
\* POST /sync/tx every stored row has amount >= 0 and type in {expense,
\* income, debt}.
C2_StoredRowsValid ==
    \A r \in Range(transactions) : r.amount >= 0 /\ r.type \in TxTypes

----------------------------------------------------------------------------
(* C7 *)

\* what the claim reads off a legacy payload
C7_HasUser(p) == "user_id" \in DOMAIN p \/ "telegram_id" \in DOMAIN p
C7_HasNonZeroUser(p) ==
    \/ ("user_id" \in DOMAIN p /\ p.user_id # 0)
    \/ ("telegram_id" \in DOMAIN p /\ p.telegram_id # 0)
C7_User(p) ==
    IF "user_id" \in DOMAIN p /\ p.user_id # 0 THEN p.user_id ELSE p.telegram_id
C7_Type(p) == IF "type" \in DOMAIN p THEN p.type ELSE "expense"
C7_Category(p) ==
    IF "category" \in DOMAIN p /\ p.category # "" THEN p.category
    ELSE IF "category_key" \in DOMAIN p THEN p.category_key
    ELSE "other"
C7_Source(p) == IF "source" \in DOMAIN p THEN p.source ELSE "bot"

\* exactly one row is appended, with the fields the payload gives
C7_InsertsOne(p) ==
    /\ resp'.status = 200
    /\ Len(transactions') = Len(transactions) + 1
    /\ SubSeq(transactions', 1, Len(transactions)) = transactions
    /\ LET r == transactions'[Len(transactions')]
       IN  /\ r.telegram_id = C7_User(p)
           /\ r.amount = p.amount
           /\ r.type = C7_Type(p)
           /\ r.category_key = C7_Category(p)
           /\ r.source = C7_Source(p)

C7_Rejects == resp'.status = 400 /\ UNCHANGED transactions

\* C7 as stated: an authorized POST /sync/tx whose payload carries a user
\* identifier (user_id or telegram_id) and an amount inserts exactly one row
\* with the defaulted fields; when either is absent it fails with 400 and
\* inserts nothing.
C7_Original ==
    [][(req'.route = "POST /sync/tx" /\ resp'.status # 401)
         => IF C7_HasUser(req'.arg) /\ "amount" \in DOMAIN req'.arg
            THEN C7_InsertsOne(req'.arg)
            ELSE C7_Rejects]_vars

\* C7 amended: the row is inserted when the payload carries a non-zero user
\* identifier (user_id if non-zero, else telegram_id) and an amount; when no
\* non-zero identifier is given, or the amount is absent, it fails with 400
\* and inserts nothing.
C7_LegacyInsert ==
    [][(req'.route = "POST /sync/tx" /\ resp'.status # 401)
         => IF C7_HasNonZeroUser(req'.arg) /\ "amount" \in DOMAIN req'.arg
            THEN C7_InsertsOne(req'.arg)
            ELSE C7_Rejects]_vars

C7_Witness ==
    /\ req.route = "POST /sync/tx"
    /\ req.arg = [telegram_id |-> 2, amount |-> 500]
    /\ resp.status = 200
    /\ transactions # <<>>
    /\ LET r == transactions[Len(transactions)]
       IN  /\ r.telegram_id = 2
           /\ r.amount = 500
           /\ r.type = "expense"
           /\ r.category_key = "other"
           /\ r.source = "bot"

----------------------------------------------------------------------------
(* C6 and C3 *)

\* the effective date as the claims define it: tx_date if set, else the date
\* of created_at
EffDay(r) == IF r.tx_date = None THEN r.created_at.day ELSE r.tx_date[1]

RECURSIVE SumOver(_, _)
\* the sum of the amounts of the rows I of type ty
SumOver(I, ty) ==
    IF I = {} THEN 0
    ELSE LET i == CHOOSE j \in I : TRUE
         IN  (IF transactions[i].type = ty THEN transactions[i].amount ELSE 0)
             + SumOver(I \ {i}, ty)

StatsOf(I) ==
    [expense |-> SumOver(I, "expense"), income |-> SumOver(I, "income"),
     debt |-> SumOver(I, "debt"), count |-> Cardinality(I)]

\* C6: stats_today(telegram_id) returns the three sums and the row count
\* over exactly the user's transactions whose effective date is the current
\* day; rows of other users and of other days are not counted.
C6_TodayStats ==
    (req.route = "GET /stats/today" /\ resp.status = 200)
    => resp.body =
         StatsOf({i \in DOMAIN transactions :
                    /\ transactions[i].telegram_id = req.arg.telegram_id
                    /\ EffDay(transactions[i]) = today})

\* a row without tx_date created the day before is left out, one created
\* today is counted
C6_Witness ==
    /\ req.route = "GET /stats/today"
    /\ req.arg.telegram_id = 1
    /\ resp.status = 200
    /\ today = 1
    /\ Len(transactions) = 2
    /\ \A i \in {1, 2} : /\ transactions[i].telegram_id = 1
                         /\ transactions[i].tx_date = None
                         /\ transactions[i].type = "expense"
    /\ transactions[1].created_at.day = 0
    /\ transactions[2].created_at.day = 1
    /\ resp.body = [expense |-> 1000, income |-> 0, debt |-> 0, count |-> 1]

C3_Days(q) == IF "days" \in DOMAIN q THEN q.days ELSE 7

\* C3 as stated: stats_range(telegram_id, days) with days >= 1 returns the
\* sums and the count over exactly the user's transactions whose effective
\* date lies in [today-(days-1), today]; rows dated after today are excluded.
C3_RangeWindow ==
    (req.route = "GET /stats/range" /\ resp.status = 200 /\ C3_Days(req.arg) >= 1)
    => LET I == {i \in DOMAIN transactions :
                   /\ transactions[i].telegram_id = req.arg.telegram_id
                   /\ EffDay(transactions[i]) >= today - (C3_Days(req.arg) - 1)
                   /\ EffDay(transactions[i]) <= today}
       IN  /\ resp.body.expense = SumOver(I, "expense")
           /\ resp.body.income = SumOver(I, "income")
           /\ resp.body.debt = SumOver(I, "debt")
           /\ resp.body.count = Cardinality(I)

----------------------------------------------------------------------------
(* C8 *)

\* C8, the limit of 2000 scaled to ExportLimit: export_csv(telegram_id) for a
\* user with n rows returns exactly min(n, ExportLimit) data rows, all of that
\* user, none created before a row of the user that is left out, in
\* non-increasing created_at order.
C8_Export ==
    (req.route = "GET /export/csv" /\ resp.status = 200)
    => LET out == resp.body.rows
           mine == {i \in DOMAIN transactions :
                      transactions[i].telegram_id = req.arg.telegram_id}
           n == Cardinality(mine)
       IN  /\ Len(out) = (IF n <= ExportLimit THEN n ELSE ExportLimit)
           /\ Len(resp.body.content) = Len(out) + 1
           /\ \A a, b \in DOMAIN out :
                 a < b => out[a].created_at.ts >= out[b].created_at.ts
           /\ \E pick \in [DOMAIN out -> mine] :
                 /\ \A a, b \in DOMAIN out : a # b => pick[a] # pick[b]
                 /\ \A a \in DOMAIN out : out[a] = ExportTuple(transactions[pick[a]])
                 /\ \A a \in DOMAIN out, j \in mine \ Range(pick) :
                       transactions[j].created_at.ts <= out[a].created_at.ts

\* the user has more rows than the limit, created at different times, among
\* rows of another user
C8_Witness ==
    /\ req.route = "GET /export/csv"
    /\ req.arg.telegram_id = 1
    /\ resp.status = 200
    /\ Cardinality(RowsOf(transactions, 1)) = ExportLimit + 1
    /\ RowsOf(transactions, 2) # {}
    /\ Len(resp.body.rows) = ExportLimit
    /\ resp.body.rows[1].created_at.ts > resp.body.rows[ExportLimit].created_at.ts

----------------------------------------------------------------------------
(* C9 *)

\* C9: under every interleaving of concurrent set_language requests the
\* users table holds at most one row per telegram_id, no request fails, and
\* once all have finished the stored language of a telegram_id is the one
\* written by the upsert that committed last.
C9_LastWriteWins ==
    /\ \A t \in TelegramIds : Cardinality(RowsOf(users, t)) <= 1
    /\ \A w \in Workers : pc[w] # "failed"
    /\ (\A w \in Workers : pc[w] = "done")
         => \A t \in TelegramIds :
               lastCommit[t] # None => SelectLanguage(users, t) = lastCommit[t]

C9_Witness ==
    /\ \A w \in Workers : pc[w] = "done"
    /\ call[1].telegram_id = 1
    /\ call[2].telegram_id = 1
    /\ call[1].language = "ru"
    /\ call[2].language = "en"
    /\ lastCommit[1] = Some("ru")
    /\ users = <<[telegram_id |-> 1, language |-> "ru"]>>

====
